---- MODULE Spec2Model ----
(***************************************************************************)
(* A model of the Intelligent OD system: the batch pipeline (src/src), the *)
(* dashboard scoring paths (credit_intelligence_dashboard/src) and the     *)
(* What-If simulator page.                                                 *)
(*                                                                         *)
(* Numbers.  The program computes in float64; the model computes in fixed  *)
(* point on integers.  Each quantity has a unit, stated where it is        *)
(* defined: a probability is counted in units of 1/PDOne, a cash ratio in  *)
(* units of 1/CROne, a profit margin in units of 1/PMOne, a utilization    *)
(* or a debt ratio in units of 1/UOne.  A float division is the quotient   *)
(* rounded down to the unit (FDiv).                                        *)
(***************************************************************************)
EXTENDS Integers, Sequences, FiniteSets, TLC

VARIABLES
    df,        \* the DataFrame a batch step works on: a sequence of rows
    stage,     \* which batch step has been applied to df
    sliders,   \* the What-If page's slider values
    params,    \* the What-If page's derived parameter map: <<>>, then <<map>>
    labels,    \* the proxy risk labels of df's rows (<<>> before they are made)
    models,    \* the fitted artifact set {scaler, pca, kmeans, ann} in memory
    feature_cols,    \* the feature list the dashboard callers pass
    validates,       \* whether the installed scikit-learn raises on feature
                     \* names that differ from those seen at fit
    raw,             \* the frame the dashboard pages score (load_raw_data)
    X_scaled,        \* run_pipeline's scaled matrix, one row per record
    X_pca,           \* run_pipeline's projected matrix
    cluster_labels,  \* run_pipeline's cluster label array
    pd_predictions,  \* train_ann's predictions on the full data
    batchOuts,       \* what each compute_risk_scores call returned, in order
    simOuts,         \* what each simulate_business call returned, in order
    summary,         \* what get_sector_summary returned: <<>>, then <<result>>
    sector_report,   \* what analyze_sectors wrote: <<>>, then <<report>>
    executed,        \* the stage functions run_pipeline has returned from,
                     \* in the order of their return
    run,             \* how many run_pipeline executions have been started
    rid,             \* per process: the number of its current execution
    step,            \* per process: where its run_pipeline execution stands
    fitted,          \* per process: what its stages fit on its data
    files,           \* the four artifact files under MODELS_DIR
    started,         \* per process: files as they were when its current
                     \* execution started
    outcomes,        \* per execution, by number: how it stands or ended
    lpc,             \* where the dashboard's load_all_models call stands
    cache,           \* the dashboard process's st.cache_resource entries
    deserialized,    \* per artifact: how many times joblib.load has read it
    loadError,       \* whether the last load_all_models call raised
    loadedSets       \* what each load_all_models call returned, in order

matrixVars == <<X_scaled, X_pca, cluster_labels>>

scoreVars == <<models, feature_cols, validates, raw, matrixVars,
               pd_predictions, batchOuts, simOuts, summary, sector_report,
               executed>>

fitVars == <<run, rid, step, fitted, files, started, outcomes, lpc, cache,
             deserialized, loadError, loadedSets>>

\* what the executions and the loader leave alone
scoringVars == <<df, stage, sliders, params, labels, scoreVars>>

vars == <<df, stage, sliders, params, labels, scoreVars, fitVars>>

----------------------------------------------------------------------------
(* Bounds of the model *)

MaxRows == 2
MaxCalls == 3
MaxScoreRows == 4
MaxRuns == 2
MaxProcs == 2

----------------------------------------------------------------------------
(* Units *)

CROne == 10
PMOne == 100
UOne == 100

\* floor(a / b) for b # 0
FDiv(a, b) == IF b > 0 THEN a \div b ELSE (-a) \div (-b)

\* The non-finite floats, which a pandas division by zero yields without
\* raising: codes outside the range of every finite value of the model.
Inf == 2000000000
NaN == 2000000001

IsFinite(x) == x \notin {Inf, -Inf, NaN}

\* A pandas / numpy element-wise division a / b: total, x/0 is +-inf, 0/0 is nan.
PdDiv(a, b) ==
    IF b = 0
    THEN (IF a = 0 THEN NaN ELSE IF a > 0 THEN Inf ELSE -Inf)
    ELSE FDiv(a, b)

\* np.where(cond, a, b) on one element: both a and b are already computed.
NpWhere(cond, a, b) == IF cond THEN a ELSE b

\* the row r with the columns of the function upd added or overwritten
SetCols(r, upd) == upd @@ r

----------------------------------------------------------------------------
(* Feature engineering: src/src/feature_engineering.py *)

CASH_RATIO_CAP == 10 * CROne

Profit(r) == r.Monthly_Revenue - r.Monthly_Expense

\* a plausible slip: the zero-revenue guard left out
ProfitMargin_unguarded(r) == PdDiv(Profit(r) * PMOne, r.Monthly_Revenue)

ProfitMargin(r) ==
    NpWhere(r.Monthly_Revenue # 0,
            PdDiv(Profit(r) * PMOne, r.Monthly_Revenue),
            0)

\* a plausible slip: the fallback 1.0 of simulate_business in place of 10.0
CashRatio_cap1(r) ==
    NpWhere(r.OD_Required > 0,
            PdDiv(r.Cash_Inflow_Adjusted * CROne, r.OD_Required),
            1 * CROne)

CashRatio(r) ==
    NpWhere(r.OD_Required > 0,
            PdDiv(r.Cash_Inflow_Adjusted * CROne, r.OD_Required),
            CASH_RATIO_CAP)

CCC_Calculated(r) == r.Inventory_Days + r.Receivable_Days - r.Payable_Days

engineer_row(r) ==
    SetCols(r, [Profit |-> Profit(r),
                ProfitMargin |-> ProfitMargin(r),
                CashRatio |-> CashRatio(r),
                CCC_Calculated |-> CCC_Calculated(r)])

engineer_features(d) == [i \in 1..Len(d) |-> engineer_row(d[i])]

----------------------------------------------------------------------------
(* The What-If page's derived features:                                    *)
(* credit_intelligence_dashboard/pages/6_What_If_Simulator.py              *)
(* Amounts are counted in thousands of rupees, utilization and debt ratio  *)
(* in hundredths.                                                          *)

page_monthly_rev(s) == s.revenue_day * 30
page_monthly_exp(s) == s.expense_day * 30

\* 6_What_If_Simulator.py:65-67 as functions of the values they read
page_profit_from(monthly_rev, monthly_exp) == monthly_rev - monthly_exp

page_profit_margin_from(profit, monthly_rev) ==
    IF monthly_rev > 0 THEN FDiv(profit * PMOne, monthly_rev) ELSE 0

\* a plausible slip: the fallback 1.0 of simulate_business in place of 10.0
page_cash_ratio_cap1(cash_inflow, od_required) ==
    IF od_required > 0 THEN FDiv(cash_inflow * CROne, od_required)
    ELSE 1 * CROne

page_cash_ratio_from(cash_inflow, od_required) ==
    IF od_required > 0 THEN FDiv(cash_inflow * CROne, od_required)
    ELSE 10 * CROne

page_profit(s) == page_profit_from(page_monthly_rev(s), page_monthly_exp(s))

page_profit_margin(s) ==
    page_profit_margin_from(page_profit(s), page_monthly_rev(s))

page_cash_ratio(s) == page_cash_ratio_from(s.cash_inflow, s.od_required)

page_ccc(s) == s.inv_days + s.recv_days - s.pay_days

page_params(s) ==
    [Revenue_per_Day |-> s.revenue_day,
     Expense_per_Day |-> s.expense_day,
     Monthly_Revenue |-> page_monthly_rev(s),
     Monthly_Expense |-> page_monthly_exp(s),
     Cash_Inflow_Adjusted |-> s.cash_inflow,
     Cash_Outflow_Adjusted |-> s.cash_outflow,
     OD_Required |-> s.od_required,
     OD_Utilization |-> s.od_utilization,
     Inventory_Days |-> s.inv_days,
     Receivable_Days |-> s.recv_days,
     Payable_Days |-> s.pay_days,
     Cash_Conversion_Cycle |-> page_ccc(s),
     Credit_Score |-> s.credit_score,
     Debt_to_Revenue_Ratio |-> s.debt_ratio,
     EMI_Obligation |-> s.emi,
     Profit |-> page_profit(s),
     ProfitMargin |-> page_profit_margin(s),
     CashRatio |-> page_cash_ratio(s)]

----------------------------------------------------------------------------
(* Inputs of the feature-engineering specification.  A batch row comes     *)
(* from the data file and may hold a zero revenue or a zero OD             *)
(* requirement; a slider value lies in its slider's range (revenue per day *)
(* 1..100, OD required 10..2000, cash inflow 50..5000, in thousands).      *)

RevenueValues == {0, 3}
ExpenseValues == {1, 4}
InflowValues == {0, 7}
OdRequiredValues == {0, 2}

\* the data file's own Cash_Conversion_Cycle column: the value its three
\* day counts give, and another one
CccValues == {45, 70}

RawRows ==
    [Monthly_Revenue : RevenueValues,
     Monthly_Expense : ExpenseValues,
     Cash_Inflow_Adjusted : InflowValues,
     OD_Required : OdRequiredValues,
     Inventory_Days : {35},
     Receivable_Days : {40},
     Payable_Days : {30},
     Cash_Conversion_Cycle : CccValues]

SliderInputs ==
    [revenue_day : {1, 25},
     expense_day : {18},
     credit_score : {675},
     debt_ratio : {10},
     emi : {50},
     od_required : {10, 300},
     od_utilization : {50},
     cash_inflow : {50, 500},
     cash_outflow : {350},
     inv_days : {35}, recv_days : {40}, pay_days : {30}]

\* the scoring state of a process that scores nothing
ScoreIdle ==
    /\ models = <<>>
    /\ feature_cols = <<>>
    /\ validates = FALSE
    /\ raw = <<>>
    /\ X_scaled = <<>>
    /\ X_pca = <<>>
    /\ cluster_labels = <<>>
    /\ pd_predictions = <<>>
    /\ batchOuts = <<>>
    /\ simOuts = <<>>
    /\ summary = <<>>
    /\ sector_report = <<>>
    /\ executed = <<>>

\* the four artifact files: config/config.py:23-26
ArtifactNames == {"scaler", "pca", "kmeans", "ann"}

\* a file that does not exist, a cache entry that is not filled
NoFile == [run |-> 0, obj |-> <<>>]

\* the operating-system processes that may run main.py
Procs == 1..MaxProcs

\* no pipeline execution and no dashboard load is modelled
FitIdle ==
    /\ run = 0
    /\ rid = [p \in Procs |-> 0]
    /\ step = [p \in Procs |-> "idle"]
    /\ fitted = [p \in Procs |-> <<>>]
    /\ files = [f \in ArtifactNames |-> NoFile]
    /\ started = [p \in Procs |-> [f \in ArtifactNames |-> NoFile]]
    /\ outcomes = <<>>
    /\ lpc = "idle"
    /\ cache = [f \in ArtifactNames |-> NoFile]
    /\ deserialized = [f \in ArtifactNames |-> 0]
    /\ loadError = FALSE
    /\ loadedSets = <<>>

Frames(Rows) == UNION {[1..n -> Rows] : n \in 1..MaxRows}

EngInit ==
    /\ df \in Frames(RawRows)
    /\ stage = "raw"
    /\ sliders \in SliderInputs
    /\ params = <<>>
    /\ labels = <<>>
    /\ ScoreIdle
    /\ FitIdle

\* src/src/pipeline.py:58  df = engineer_features(df)
EngineerFeatures ==
    /\ stage = "raw"
    /\ df' = engineer_features(df)
    /\ stage' = "engineered"
    /\ UNCHANGED <<fitVars, sliders, params, labels, scoreVars>>

\* pages/6_What_If_Simulator.py:65-79
SimulatorPage ==
    /\ params = <<>>
    /\ params' = <<page_params(sliders)>>
    /\ UNCHANGED <<fitVars, df, stage, sliders, labels, scoreVars>>

EngNext == EngineerFeatures \/ SimulatorPage

SpecEng == EngInit /\ [][EngNext]_vars

\* the raw columns of a record that the derived features are computed from
C27_Raw(p) ==
    [Monthly_Revenue |-> p.Monthly_Revenue,
     Monthly_Expense |-> p.Monthly_Expense,
     Cash_Inflow_Adjusted |-> p.Cash_Inflow_Adjusted,
     OD_Required |-> p.OD_Required,
     Inventory_Days |-> p.Inventory_Days,
     Receivable_Days |-> p.Receivable_Days,
     Payable_Days |-> p.Payable_Days]

\* C27: from the same raw values with Monthly_Revenue >= 0 and
\* OD_Required >= 0 the What-If page and engineer_features derive the same
\* Profit, ProfitMargin and CashRatio: the page's parameters equal what
\* engineer_features gives on the page's raw values, and every engineered
\* record equals what the page's expressions give on the record's raw values,
\* 0 at zero revenue and 10.0 at zero OD requirement.
C27_PageMatchesEngineer ==
    /\ (params # <<>>) =>
          LET e == engineer_row(C27_Raw(params[1]))
          IN  /\ params[1].Profit = e.Profit
              /\ params[1].ProfitMargin = e.ProfitMargin
              /\ params[1].CashRatio = e.CashRatio
    /\ (stage = "engineered") =>
          \A i \in 1..Len(df) :
              (df[i].Monthly_Revenue >= 0 /\ df[i].OD_Required >= 0) =>
                  LET profit == page_profit_from(df[i].Monthly_Revenue,
                                                 df[i].Monthly_Expense)
                  IN  /\ df[i].Profit = profit
                      /\ df[i].ProfitMargin =
                            page_profit_margin_from(profit,
                                                    df[i].Monthly_Revenue)
                      /\ df[i].CashRatio =
                            page_cash_ratio_from(df[i].Cash_Inflow_Adjusted,
                                                 df[i].OD_Required)
                      /\ (df[i].Monthly_Revenue = 0 => df[i].ProfitMargin = 0)
                      /\ (df[i].OD_Required = 0 =>
                              df[i].CashRatio = 10 * CROne)

\* the page has derived its parameters and engineer_features has returned a
\* frame with a zero-revenue record and a record without OD requirement
C27_Witness ==
    /\ params # <<>>
    /\ stage = "engineered"
    /\ \E i \in 1..Len(df) :
          df[i].Monthly_Revenue = 0 /\ df[i].Monthly_Expense > 0
    /\ \E i \in 1..Len(df) :
          df[i].OD_Required = 0 /\ df[i].Cash_Inflow_Adjusted > 0

\* q is a / b rounded down to the unit, for b > 0
IsQuotient(q, a, b) == q * b <= a /\ a < (q + 1) * b

\* C9: for every record with non-negative Cash_Inflow_Adjusted and
\* non-negative OD_Required the engineered CashRatio is finite and >= 0; it is
\* Cash_Inflow_Adjusted / OD_Required when OD_Required > 0 and exactly 10.0
\* when OD_Required = 0.  The same holds of the cash ratio the What-If page
\* derives from its sliders.
C9_CashRatioOf(cr, inflow, odreq) ==
    (inflow >= 0 /\ odreq >= 0) =>
        /\ IsFinite(cr)
        /\ cr >= 0
        /\ odreq > 0 => IsQuotient(cr, inflow * CROne, odreq)
        /\ odreq = 0 => cr = 10 * CROne

C9_CashRatioFinite ==
    /\ stage = "engineered" =>
          \A i \in 1..Len(df) :
              C9_CashRatioOf(df[i].CashRatio, df[i].Cash_Inflow_Adjusted,
                             df[i].OD_Required)
    /\ params # <<>> =>
          C9_CashRatioOf(params[1].CashRatio, params[1].Cash_Inflow_Adjusted,
                         params[1].OD_Required)

\* a batch holding a record with no OD requirement (sentinel 10.0) and one
\* with a requirement (7 / 2 = 3.5) has been engineered, and the page has
\* derived 500 / 300 = 1.6
C9_Witness ==
    /\ stage = "engineered"
    /\ \E i, j \in 1..Len(df) :
          /\ df[i].OD_Required = 0 /\ df[i].CashRatio = 100
          /\ df[j].OD_Required = 2 /\ df[j].Cash_Inflow_Adjusted = 7
          /\ df[j].CashRatio = 35
    /\ params # <<>> /\ params[1].CashRatio = 16

\* C10: for every record the engineered ProfitMargin is finite; it is
\* (Monthly_Revenue - Monthly_Expense) / Monthly_Revenue when Monthly_Revenue
\* is non-zero and exactly 0 when Monthly_Revenue = 0.
C10_ProfitMarginFinite ==
    stage = "engineered" =>
        \A i \in 1..Len(df) :
            LET rev == df[i].Monthly_Revenue
                exp == df[i].Monthly_Expense
                pm == df[i].ProfitMargin
            IN  /\ IsFinite(pm)
                /\ rev > 0 => IsQuotient(pm, (rev - exp) * PMOne, rev)
                /\ rev < 0 => IsQuotient(pm, (exp - rev) * PMOne, -rev)
                /\ rev = 0 => pm = 0

\* a batch holding a zero-revenue record (margin 0) and a loss-making one
\* ((3 - 4) / 3 = -0.34 rounded down) has been engineered
C10_Witness ==
    /\ stage = "engineered"
    /\ \E i, j \in 1..Len(df) :
          /\ df[i].Monthly_Revenue = 0 /\ df[i].ProfitMargin = 0
          /\ df[j].Monthly_Revenue = 3 /\ df[j].Monthly_Expense = 4
          /\ df[j].ProfitMargin = -34

----------------------------------------------------------------------------
(* The proxy risk label: src/src/ann_risk_model.py create_risk_label.      *)
(* OD_Utilization and Debt_to_Revenue_Ratio are counted in units of        *)
(* 1/UOne, so the literals 0.7 and 0.15 are 70 and 15.                     *)

LABEL_UTIL_CUT == 70
LABEL_DEBT_CUT == 15
LABEL_CREDIT_CUT == 600

AsInt(b) == IF b THEN 1 ELSE 0

\* a plausible slip: the comparisons not strict
risk_score_nonstrict(r) ==
    AsInt(r.OD_Utilization >= LABEL_UTIL_CUT)
    + AsInt(r.Debt_to_Revenue_Ratio >= LABEL_DEBT_CUT)
    + AsInt(r.Credit_Score <= LABEL_CREDIT_CUT)

risk_score(r) ==
    AsInt(r.OD_Utilization > LABEL_UTIL_CUT)
    + AsInt(r.Debt_to_Revenue_Ratio > LABEL_DEBT_CUT)
    + AsInt(r.Credit_Score < LABEL_CREDIT_CUT)

create_risk_label(d) == [i \in 1..Len(d) |-> AsInt(risk_score(d[i]) >= 2)]

LabelRows ==
    [OD_Utilization : {70, 80},
     Debt_to_Revenue_Ratio : {5, 15, 20},
     Credit_Score : {599, 600, 700},
     Monthly_Revenue : {0, 3}]

LabelInit ==
    /\ df \in Frames(LabelRows)
    /\ stage = "raw"
    /\ sliders = <<>>
    /\ params = <<>>
    /\ labels = <<>>
    /\ ScoreIdle
    /\ FitIdle

\* src/src/ann_risk_model.py:101  y = create_risk_label(df)
CreateRiskLabel ==
    /\ stage = "raw"
    /\ labels' = create_risk_label(df)
    /\ stage' = "labelled"
    /\ UNCHANGED <<fitVars, df, sliders, params, scoreVars>>

LabelNext == CreateRiskLabel

SpecLabel == LabelInit /\ [][LabelNext]_vars

C8_Conditions(r) ==
    Cardinality({c \in {"util", "debt", "credit"} :
        \/ c = "util" /\ r.OD_Utilization > 70
        \/ c = "debt" /\ r.Debt_to_Revenue_Ratio > 15
        \/ c = "credit" /\ r.Credit_Score < 600})

\* C8: create_risk_label gives a record label 1 iff at least two of the
\* three conditions hold (OD utilization > 0.70, debt-to-revenue ratio >
\* 0.15, credit score < 600, all strict) and label 0 otherwise; records equal
\* in these three fields get the same label whatever their other fields.
C8_ProxyLabel ==
    stage = "labelled" =>
        /\ Len(labels) = Len(df)
        /\ \A i \in 1..Len(df) :
              /\ labels[i] \in {0, 1}
              /\ labels[i] = 1 <=> C8_Conditions(df[i]) >= 2
        /\ \A i, j \in 1..Len(df) :
              (/\ df[i].OD_Utilization = df[j].OD_Utilization
               /\ df[i].Debt_to_Revenue_Ratio = df[j].Debt_to_Revenue_Ratio
               /\ df[i].Credit_Score = df[j].Credit_Score)
              => labels[i] = labels[j]

\* the labels are made for utilization 0.8, debt ratio 0.2, credit score 700
\* (two conditions, label 1) and for utilization 0.7 on the cut, debt ratio
\* 0.2, credit score 600 on the cut (one condition, label 0)
C8_Witness ==
    /\ stage = "labelled"
    /\ \E i, j \in 1..Len(df) :
          /\ df[i].OD_Utilization = 80 /\ df[i].Debt_to_Revenue_Ratio = 20
          /\ df[i].Credit_Score = 700 /\ labels[i] = 1
          /\ df[j].OD_Utilization = 70 /\ df[j].Debt_to_Revenue_Ratio = 20
          /\ df[j].Credit_Score = 600 /\ labels[j] = 0

----------------------------------------------------------------------------
(* Cleaning: src/src/preprocessing.py.  A missing number is NaN, a missing *)
(* string is "nan".                                                        *)

\* the rows of d at the positions in S, in d's order
RowsAt(d, S) ==
    LET f[k \in 0..Len(d)] ==
            IF k = 0 THEN <<>>
            ELSE IF k \in S THEN Append(f[k - 1], d[k]) ELSE f[k - 1]
    IN  f[Len(d)]

\* preprocessing.py:31  df.drop_duplicates(): the first of every group of
\* rows equal in all columns is kept; missing values compare equal
drop_duplicates(d) ==
    RowsAt(d, {i \in 1..Len(d) : \A j \in 1..(i - 1) : d[j] # d[i]})

\* Series.median(): of the values that are not missing; NaN when all are
median(d, col) ==
    LET present == RowsAt(d, {i \in 1..Len(d) : d[i][col] # NaN})
        s == SortSeq([i \in 1..Len(present) |-> present[i][col]],
                     LAMBDA x, y : x < y)
        m == Len(s)
    IN  IF m = 0 THEN NaN
        ELSE IF m % 2 = 1 THEN s[(m + 1) \div 2]
        ELSE FDiv(s[m \div 2] + s[m \div 2 + 1], 2)

\* preprocessing.py:37-39  a column with missing values gets them filled
\* with its median
fillna_median(d, col) ==
    IF \E i \in 1..Len(d) : d[i][col] = NaN
    THEN [i \in 1..Len(d) |->
            IF d[i][col] = NaN
            THEN [d[i] EXCEPT ![col] = median(d, col)]
            ELSE d[i]]
    ELSE d

\* preprocess_data(df): drop duplicates, fill the numeric column, drop the
\* rows without Business_Type; reset_index(drop=True) renumbers the rows,
\* which a sequence does by itself
preprocess_data(d) ==
    LET deduped == drop_duplicates(d)
        filled == fillna_median(deduped, "Monthly_Revenue")
    IN  RowsAt(filled, {i \in 1..Len(filled) :
                           filled[i].Business_Type # "nan"})

\* records of the data file as read_csv gives them: two ids, a present or a
\* missing Business_Type, a present or a missing Monthly_Revenue
PreRows ==
    [Business_ID : {"B1", "B2"},
     Business_Type : {"Retail", "nan"},
     Monthly_Revenue : {2, 6, NaN}]

PreInit ==
    /\ df \in Frames(PreRows)
    /\ stage = "raw"
    /\ sliders = <<>>
    /\ params = <<>>
    /\ labels = <<>>
    /\ ScoreIdle
    /\ FitIdle

\* src/src/pipeline.py:53  df = preprocess_data(df)
PreprocessData ==
    /\ stage = "raw"
    /\ df' = preprocess_data(df)
    /\ stage' = "preprocessed"
    /\ UNCHANGED <<fitVars, sliders, params, labels, scoreVars>>

PreNext == PreprocessData

SpecPre == PreInit /\ [][PreNext]_vars

\* C30: for every input, the DataFrame preprocess_data returns contains no
\* two identical rows.
C30_NoIdenticalRows ==
    (stage = "preprocessed") =>
        \A i, j \in 1..Len(df) : i # j => df[i] # df[j]

----------------------------------------------------------------------------
(* The fitted artifacts and their apply side.  The fit itself (means,      *)
(* principal axes, centroids, network weights) is a function of the        *)
(* training data computed by scikit-learn; the model takes a fit's result  *)
(* as given and models what the program does with it.                      *)

PDOne == 10000000
ODOne == PDOne * CROne

\* config/config.py NUMERIC_FEATURES, ENGINEERED_FEATURES (both copies agree)
NUMERIC_FEATURES ==
    <<"Revenue_per_Day", "Expense_per_Day", "Monthly_Revenue",
      "Monthly_Expense", "Cash_Inflow_Adjusted", "Cash_Outflow_Adjusted",
      "OD_Required", "OD_Utilization", "Inventory_Days", "Receivable_Days",
      "Payable_Days", "Cash_Conversion_Cycle", "Credit_Score",
      "Debt_to_Revenue_Ratio", "EMI_Obligation">>

ENGINEERED_FEATURES == <<"Profit", "ProfitMargin", "CashRatio">>

KMEANS_K == 4

CLUSTER_LABELS ==
    [c \in 0..3 |->
        CASE c = 0 -> "Stable" [] c = 1 -> "Growing"
          [] c = 2 -> "Liquidity Stressed" [] c = 3 -> "High Risk"]

\* a copy of the label table that has drifted from the pipeline's
Dash_CLUSTER_LABELS_drifted ==
    [c \in 0..3 |->
        CASE c = 0 -> "Stable" [] c = 1 -> "Growing"
          [] c = 2 -> "Stressed" [] c = 3 -> "High Risk"]

Dash_CLUSTER_LABELS ==
    [c \in 0..3 |->
        CASE c = 0 -> "Stable" [] c = 1 -> "Growing"
          [] c = 2 -> "Liquidity Stressed" [] c = 3 -> "High Risk"]

\* Series.map(table) on one element: a key the table lacks maps to NaN
series_map(c, table) == IF c \in DOMAIN table THEN table[c] ELSE "nan"

\* table.get(c, f"Cluster {c}")
label_get(c, table) ==
    IF c \in DOMAIN table THEN table[c] ELSE "Cluster " \o ToString(c)

PD_THRESHOLD == 1500000
OD_UTIL_THRESHOLD == 70
Dash_PD_THRESHOLD == 1500000
Dash_OD_UTIL_THRESHOLD == 70

RECURSIVE SumSeq(_)
SumSeq(q) == IF q = <<>> THEN 0 ELSE Head(q) + SumSeq(Tail(q))

\* numpy's dot of two vectors; it is defined for equal lengths only
Dot(u, v) ==
    CASE Len(u) = Len(v) -> SumSeq([i \in 1..Len(u) |-> u[i] * v[i]])

Clamp(x, lo, hi) == IF x < lo THEN lo ELSE IF x > hi THEN hi ELSE x

\* StandardScaler.transform on a positional matrix row: (x - mean) / scale
scaler_transform(scaler, X) ==
    [i \in 1..Len(X) |-> FDiv(X[i] - scaler.mean[i], scaler.scale[i])]

\* PCA.transform: (z - mean) . components^T
pca_transform(pca, Z) ==
    [k \in 1..Len(pca.components) |->
        Dot(pca.components[k], [i \in 1..Len(Z) |-> Z[i] - pca.mean[i]])]

Dist2(u, v) ==
    CASE Len(u) = Len(v) ->
        SumSeq([i \in 1..Len(u) |-> (u[i] - v[i]) * (u[i] - v[i])])

\* KMeans.predict: the nearest centroid, the lowest index among the nearest
kmeans_predict(kmeans, Y) ==
    LET d == [k \in 1..Len(kmeans.centers) |-> Dist2(Y, kmeans.centers[k])]
        best == CHOOSE k \in 1..Len(d) :
                    /\ \A j \in 1..Len(d) : d[k] <= d[j]
                    /\ \A j \in 1..(k - 1) : d[j] > d[k]
    IN  best - 1

\* a network whose answer drifts with the number of calls already answered
ann_predict_proba_drift(ann, A) ==
    ann.table[Clamp(ann.bias + Dot(ann.weights, A)
                        + Len(batchOuts) + Len(simOuts),
                    1, Len(ann.table))]

\* MLPClassifier.predict_proba(...)[:, 1] on one input row: the network is
\* a fixed function of its input, here a monotone table of a weighted sum.
ann_predict_proba(ann, A) ==
    ann.table[Clamp(ann.bias + Dot(ann.weights, A), 1, Len(ann.table))]

\* scikit-learn's shape validation along the apply chain: each estimator
\* raises ValueError when its input width is not the width it was fitted on
sklearn_shapes_ok(m, n) ==
    /\ n = Len(m.scaler.mean)
    /\ n = Len(m.pca.mean)
    /\ Len(m.pca.components) = m.kmeans.n_features
    /\ Len(m.pca.components) + 1 = Len(m.ann.weights)

Range(q) == {q[i] : i \in 1..Len(q)}

\* X_pca, cluster and PD of one positional feature vector X
chain_pca(m, X) ==
    pca_transform(m.pca, scaler_transform(m.scaler, X))

chain_cluster(m, X) == kmeans_predict(m.kmeans, chain_pca(m, X))

\* a classifier input with the segment id in front of the projection
ann_input_cluster_first(m, X) == <<chain_cluster(m, X)>> \o chain_pca(m, X)

\* np.column_stack([X_pca, clusters]) on one record: ann_risk_model.py:97,
\* scoring.py:43, simulation.py:36
ann_input(m, X) == Append(chain_pca(m, X), chain_cluster(m, X))

chain_pd(m, X) == ann_predict_proba(m.ann, ann_input(m, X))

\* round(x, n) with unit = 10^-n in x's own unit: to the nearest multiple of
\* unit, a tie to the even multiple
Round(x, unit) ==
    LET q == x \div unit
        r == x % unit
    IN  IF 2 * r < unit THEN q * unit
        ELSE IF 2 * r > unit THEN (q + 1) * unit
        ELSE IF q % 2 = 0 THEN q * unit ELSE (q + 1) * unit

Failed(e) == [ok |-> FALSE, error |-> e]

----------------------------------------------------------------------------
(* The dashboard batch path: credit_intelligence_dashboard/src/scoring.py  *)

dash_od_score_neg(pd, cash_ratio) == pd * cash_ratio

\* scoring.py:47
dash_od_score(pd, cash_ratio) == (PDOne - pd) * cash_ratio

\* one row of the returned frame (scoring.py:29-47)
risk_scores_row(r, m, cols) ==
    LET X == [i \in 1..Len(cols) |-> r[cols[i]]]
        pd == chain_pd(m, X)
        cluster == chain_cluster(m, X)
    IN  SetCols(r, [Cluster |-> cluster,
                    Cluster_Name |-> series_map(cluster, Dash_CLUSTER_LABELS),
                    PD |-> pd,
                    ODScore |-> dash_od_score(pd, r.CashRatio)])

\* a function that writes its columns into the frame it was given
caller_frame_inplace(d, out) == IF out.ok THEN out.df ELSE d

\* a function that has written its cluster column into the frame it was
\* given by the time it raises
caller_frame_partial(d, out) ==
    IF out.ok THEN d
    ELSE [i \in 1..Len(d) |-> SetCols(d[i], [Cluster |-> 0])]

\* scoring.py:36-47: the columns are assigned to df.copy(), the frame the
\* caller passed keeps the columns it had
caller_frame_after(d, out) == d

\* compute_risk_scores(df, models, feature_cols).  strict: whether the
\* installed scikit-learn raises on feature names that differ from those
\* seen at fit (1.2 and later) or only warns (before).
compute_risk_scores(d, m, cols, strict) ==
    IF \E i \in 1..Len(d) : ~(Range(cols) \subseteq DOMAIN d[i])
    THEN Failed("KeyError")
    ELSE IF strict /\ cols # m.scaler.feature_names_in
    THEN Failed("ValueError")
    ELSE IF ~sklearn_shapes_ok(m, Len(cols))
    THEN Failed("ValueError")
    ELSE [ok |-> TRUE,
          df |-> [i \in 1..Len(d) |->
                     risk_scores_row(d[i], m, cols)]]

----------------------------------------------------------------------------
(* The simulator path: credit_intelligence_dashboard/src/simulation.py     *)

SIM_LOW_CUT == 1000000
SIM_MEDIUM_CUT == 3000000

Get(p, key, default) == IF key \in DOMAIN p THEN p[key] ELSE default

\* simulation.py:26  the positional vector; an absent key reads 0.0
sim_X(p, cols) ==
    [i \in 1..Len(cols) |-> Get(p, cols[i], 0)]

\* simulation.py:37  pd_score, before it is rounded for the result
sim_pd_score(p, m, cols) ==
    chain_pd(m, sim_X(p, cols))

\* simulation.py:41
sim_od_score(pd, cash_ratio) == (PDOne - pd) * cash_ratio

sim_interest_eligible_nonstrict(pd, od_util) ==
    pd <= Dash_PD_THRESHOLD /\ od_util >= Dash_OD_UTIL_THRESHOLD

\* simulation.py:45
sim_interest_eligible(pd, od_util) ==
    pd < Dash_PD_THRESHOLD /\ od_util > Dash_OD_UTIL_THRESHOLD

\* a banding whose lower cut is the eligibility threshold
sim_risk_level_threshold(pd) ==
    IF pd < Dash_PD_THRESHOLD THEN "Low"
    ELSE IF pd < SIM_MEDIUM_CUT THEN "Medium" ELSE "High"

\* simulation.py:53
sim_risk_level(pd) ==
    IF pd < SIM_LOW_CUT THEN "Low"
    ELSE IF pd < SIM_MEDIUM_CUT THEN "Medium" ELSE "High"

\* simulate_business(params, models, feature_cols).  X is a bare array, so
\* the scaler sees no feature names and applies its columns by position.
simulate_business(p, m, cols) ==
    IF ~sklearn_shapes_ok(m, Len(cols))
    THEN Failed("ValueError")
    ELSE LET X == sim_X(p, cols)
             cluster == chain_cluster(m, X)
             pd_score == chain_pd(m, X)
             cash_ratio == Get(p, "CashRatio", 1 * CROne)
             od_util == Get(p, "OD_Utilization", 0)
         IN  [ok |-> TRUE,
              PD |-> Round(pd_score, PDOne \div 1000000),
              Cluster |-> cluster,
              Cluster_Name |-> label_get(cluster, Dash_CLUSTER_LABELS),
              ODScore |-> Round(sim_od_score(pd_score, cash_ratio),
                                ODOne \div 10000),
              Interest_Eligible |-> sim_interest_eligible(pd_score, od_util),
              Risk_Level |-> sim_risk_level(pd_score)]

----------------------------------------------------------------------------
(* The dashboard's sector summary:                                         *)
(* credit_intelligence_dashboard/src/sector_analysis.py                    *)

summary_interest_eligible(r) ==
    r.PD < Dash_PD_THRESHOLD /\ r.OD_Utilization > Dash_OD_UTIL_THRESHOLD

\* sector_analysis.py:19-20  the flagged copy of the frame
summary_flagged(d) ==
    [i \in 1..Len(d) |->
        SetCols(d[i], [Interest_Eligible |-> summary_interest_eligible(d[i])])]

\* groupby(...).agg(("Business_ID", "count")): the rows of the group whose
\* Business_ID is not missing
count_ids(d, idx) == Cardinality({i \in idx : d[i].Business_ID # "nan"})

\* (n / count * 100).round(2) in hundredths of a percent; the division is
\* pandas', so a count of 0 gives inf or nan
pct_round2(n, count) ==
    LET q == PdDiv(n * 1000000, count)
    IN  IF IsFinite(q) THEN Round(q, 100) \div 100 ELSE q

Mean(d, idx, col) ==
    LET q == [i \in 1..Len(d) |-> IF i \in idx THEN d[i][col] ELSE 0]
    IN  FDiv(SumSeq(q), Cardinality(idx))

\* sector_analysis.py:22-36  one Business_Type's aggregate row.  The
\* percentage is counted in hundredths of a percent (round(.., 2)).
summary_group(d, t) ==
    LET idx == {i \in 1..Len(d) : d[i].Business_Type = t}
        eligible == Cardinality({i \in idx : d[i].Interest_Eligible})
    IN  [Business_Type |-> t,
         Count |-> count_ids(d, idx),
         Avg_PD |-> Mean(d, idx, "PD"),
         Avg_ODScore |-> Mean(d, idx, "ODScore"),
         Avg_Profit |-> Mean(d, idx, "Profit"),
         Avg_ProfitMargin |-> Mean(d, idx, "ProfitMargin"),
         Avg_CashRatio |-> Mean(d, idx, "CashRatio"),
         Avg_CreditScore |-> Mean(d, idx, "Credit_Score"),
         Avg_OD_Utilization |-> Mean(d, idx, "OD_Utilization"),
         Interest_Eligible_Count |-> eligible,
         Interest_Eligible_Pct |-> pct_round2(eligible, count_ids(d, idx))]

\* sector_analysis.py:37  the orders sort_values("Avg_PD") may return: every
\* arrangement of the groups with Avg_PD ascending (the default sort is not
\* stable, so groups of equal Avg_PD come in either order)
summary_orders(d) ==
    LET types == {d[i].Business_Type : i \in 1..Len(d)}
        n == Cardinality(types)
    IN  {q \in [1..n -> types] :
            /\ \A i, j \in 1..n : i # j => q[i] # q[j]
            /\ \A i, j \in 1..n :
                  i < j => summary_group(d, q[i]).Avg_PD
                             <= summary_group(d, q[j]).Avg_PD}

\* get_sector_summary(df), the groups in the order q; flagged is the
\* function's own copy of the frame with the Interest_Eligible column
get_sector_summary(d, q) ==
    LET flagged == summary_flagged(d)
    IN  [flagged |-> flagged,
         summary |-> [k \in 1..Len(q) |->
                         SetCols(summary_group(flagged, q[k]),
                                 [Risk_Rank |-> k])]]

----------------------------------------------------------------------------
(* The pipeline's scoring steps: src/src/od_scoring.py and                 *)
(* src/src/interest_strategy.py                                            *)

\* od_scoring.py:30-33
compute_od_score(d, preds) ==
    [i \in 1..Len(d) |->
        SetCols(d[i], [PD |-> preds[i],
                       ODScore |-> (PDOne - preds[i]) * d[i].CashRatio])]

\* interest_strategy.py:33-35
apply_interest_strategy(d) ==
    [i \in 1..Len(d) |->
        SetCols(d[i], [Interest_Reduction |->
            d[i].PD < PD_THRESHOLD /\ d[i].OD_Utilization > OD_UTIL_THRESHOLD])]

----------------------------------------------------------------------------
(* The pipeline's strategy report: src/src/sector_analysis.py              *)

\* the Business_Type values of the data file in the order groupby puts its
\* keys: sorted
SectorKeys == <<"Retail", "Tech">>

\* the keys of SectorKeys that occur in the frame, in SectorKeys' order
sector_keys(d) ==
    SelectSeq(SectorKeys,
              LAMBDA t : \E i \in 1..Len(d) : d[i].Business_Type = t)

\* sector_analysis.py:30-44  one Business_Type's aggregate row
sector_group(d, t) ==
    LET idx == {i \in 1..Len(d) : d[i].Business_Type = t}
        reduced == Cardinality({i \in idx : d[i].Interest_Reduction})
    IN  [Business_Type |-> t,
         Count |-> count_ids(d, idx),
         Avg_PD |-> Mean(d, idx, "PD"),
         Avg_ODScore |-> Mean(d, idx, "ODScore"),
         Avg_CashRatio |-> Mean(d, idx, "CashRatio"),
         Avg_Profit |-> Mean(d, idx, "Profit"),
         Avg_ProfitMargin |-> Mean(d, idx, "ProfitMargin"),
         Avg_CreditScore |-> Mean(d, idx, "Credit_Score"),
         Interest_Reduction_Count |-> reduced,
         Interest_Reduction_Pct |-> pct_round2(reduced, count_ids(d, idx))]

\* sector_analysis.py:30-39  the aggregate frame, one row per key
sector_groups(d) ==
    LET keys == sector_keys(d)
    IN  [k \in 1..Len(keys) |-> sector_group(d, keys[k])]

\* a frame left in the order it came in
sort_values_none(g, col) == {g}

\* sort_values(col, ascending=True): the frames it may return, every
\* arrangement of g's rows with col ascending (the default sort is not
\* stable, so rows of equal col come in either order)
sort_values(g, col) ==
    {[k \in 1..Len(g) |-> g[q[k]]] :
        q \in {q \in [1..Len(g) -> 1..Len(g)] :
                  /\ \A i, j \in 1..Len(g) : i # j => q[i] # q[j]
                  /\ \A i, j \in 1..Len(g) :
                        i < j => g[q[i]][col] <= g[q[j]][col]}}

\* sector_analysis.py:48  Risk_Rank = range(1, len + 1), by position
with_risk_rank(g) ==
    [k \in 1..Len(g) |-> SetCols(g[k], [Risk_Rank |-> k])]

\* sector_analysis.py:55  the column a cluster id is counted under
ClusterColumn ==
    [c \in 0..3 |->
        CASE CLUSTER_LABELS[c] = "Stable" -> "Cluster_Stable"
          [] CLUSTER_LABELS[c] = "Growing" -> "Cluster_Growing"
          [] CLUSTER_LABELS[c] = "Liquidity Stressed"
                -> "Cluster_Liquidity Stressed"
          [] CLUSTER_LABELS[c] = "High Risk" -> "Cluster_High Risk"]

\* sector_analysis.py:52-56  per Business_Type, the number of its rows in
\* each cluster that occurs in the frame (0 where the type has none)
cluster_dist(d) ==
    LET keys == sector_keys(d)
        present == {d[i].Cluster : i \in 1..Len(d)}
    IN  [k \in 1..Len(keys) |->
            SetCols([Business_Type |-> keys[k]],
                    [col \in {ClusterColumn[c] : c \in present} |->
                        Cardinality({i \in 1..Len(d) :
                            /\ d[i].Business_Type = keys[k]
                            /\ ClusterColumn[d[i].Cluster] = col})])]

\* left.merge(right, on="Business_Type", how="left"): the left rows in their
\* order, each once per right row of its key, with that row's columns; a
\* left row without a right row is kept as it is
RECURSIVE merge_left(_, _)
merge_left(left, right) ==
    IF left = <<>> THEN <<>>
    ELSE LET l == Head(left)
             hit == SelectSeq(right,
                        LAMBDA r : r.Business_Type = l.Business_Type)
             rows == IF hit = <<>> THEN <<l>>
                     ELSE [k \in 1..Len(hit) |-> SetCols(l, hit[k])]
         IN  rows \o merge_left(Tail(left), right)

\* analyze_sectors(df): the reports it may write
analyze_sectors(d) ==
    {merge_left(with_risk_rank(sorted), cluster_dist(d)) :
        sorted \in sort_values(sector_groups(d), "Avg_PD")}

----------------------------------------------------------------------------
(* Inputs of the scoring specification: two fits' artifact sets and the    *)
(* records scored against them.                                            *)

FIT_COLS == NUMERIC_FEATURES \o ENGINEERED_FEATURES

\* src/src/scaling.py:35  df[feature_cols]: a row's feature vector, the
\* frame's columns of these names in this order
select_features(r, cols) == [j \in 1..Len(cols) |-> r[cols[j]]]

\* FIT_COLS with OD_Utilization and Debt_to_Revenue_Ratio exchanged
SWAPPED_COLS ==
    [i \in 1..Len(FIT_COLS) |->
        IF FIT_COLS[i] = "OD_Utilization" THEN "Debt_to_Revenue_Ratio"
        ELSE IF FIT_COLS[i] = "Debt_to_Revenue_Ratio" THEN "OD_Utilization"
        ELSE FIT_COLS[i]]

\* FIT_COLS with a name in CashRatio's place that no frame has as a column
ABSENT_COLS ==
    [i \in 1..Len(FIT_COLS) |->
        IF FIT_COLS[i] = "CashRatio" THEN "Cash_Ratio" ELSE FIT_COLS[i]]

BaseRow ==
    [Business_ID |-> "B0", Business_Type |-> "Retail",
     Revenue_per_Day |-> 25, Expense_per_Day |-> 18,
     Monthly_Revenue |-> 750, Monthly_Expense |-> 540,
     Cash_Inflow_Adjusted |-> 500, Cash_Outflow_Adjusted |-> 350,
     OD_Required |-> 300, OD_Utilization |-> 50,
     Inventory_Days |-> 35, Receivable_Days |-> 40, Payable_Days |-> 30,
     Cash_Conversion_Cycle |-> 45, Credit_Score |-> 675,
     Debt_to_Revenue_Ratio |-> 10, EMI_Obligation |-> 50,
     Profit |-> 210, ProfitMargin |-> 28, CashRatio |-> 16]

ScoreRow(id, type, util, debt, inflow) ==
    SetCols(BaseRow,
            [Business_ID |-> id, Business_Type |-> type,
             OD_Utilization |-> util, Debt_to_Revenue_Ratio |-> debt,
             Cash_Inflow_Adjusted |-> inflow,
             CashRatio |-> FDiv(inflow * CROne, BaseRow.OD_Required)])

ScoreRows ==
    <<ScoreRow("B0", "Tech", 75, 10, 600),
      ScoreRow("B1", "Retail", 75, 10, 600),
      ScoreRow("B2", "Retail", 50, 10, 600),
      ScoreRow("B3", "Tech", 75, 13, 600),
      ScoreRow("B4", "Tech", 70, 10, 600),
      ScoreRow("B5", "Retail", 50, 14, 600),
      ScoreRow("B6", "Tech", 75, 11, 450),
      ScoreRow("B7", "Tech", 75, 12, 450),
      ScoreRow("B8", "Retail", 75, 14, 600),
      ScoreRow("nan", "Tech", 75, 10, 600),
      ScoreRow("B9", "Retail", 75, 16, 600)>>

\* frames of 1..MaxScoreRows consecutive records of the data file
ScoreFrames ==
    UNION {{SubSeq(ScoreRows, a, a + n - 1) :
               a \in 1..(Len(ScoreRows) - n + 1)} : n \in 1..MaxScoreRows}

Unit(name) == [i \in 1..Len(FIT_COLS) |-> IF FIT_COLS[i] = name THEN 1 ELSE 0]

PDTable ==
    <<0, 1000000, 1234567, 1499996, 1500000, 2000000, 3000000, PDOne>>

FitResultA ==
    [scaler |->
        [feature_names_in |-> FIT_COLS,
         mean |-> [i \in 1..Len(FIT_COLS) |-> BaseRow[FIT_COLS[i]]],
         scale |-> [i \in 1..Len(FIT_COLS) |->
                       IF FIT_COLS[i] = "OD_Utilization" THEN 5 ELSE 1]],
     pca |->
        [mean |-> [i \in 1..Len(FIT_COLS) |-> 0],
         components |-> <<Unit("Debt_to_Revenue_Ratio"),
                          Unit("OD_Utilization")>>],
     kmeans |->
        [n_features |-> 2,
         centers |-> <<<<0, 0>>, <<0, 5>>, <<5, 0>>, <<5, 5>>>>],
     ann |-> [weights |-> <<1, 0, 0>>, bias |-> 2, table |-> PDTable]]

FitResultB ==
    [scaler |->
        [feature_names_in |-> FIT_COLS,
         mean |-> [i \in 1..Len(FIT_COLS) |->
                      IF FIT_COLS[i] = "Debt_to_Revenue_Ratio" THEN 9
                      ELSE BaseRow[FIT_COLS[i]]],
         scale |-> [i \in 1..Len(FIT_COLS) |->
                       IF FIT_COLS[i] = "OD_Utilization" THEN 10 ELSE 1]],
     pca |->
        [mean |-> [i \in 1..Len(FIT_COLS) |-> 0],
         components |-> <<Unit("Debt_to_Revenue_Ratio"),
                          Unit("OD_Utilization"),
                          Unit("CashRatio")>>],
     kmeans |->
        [n_features |-> 3,
         centers |-> <<<<5, 2, 0>>, <<1, 2, 0>>, <<1, 0, 4>>, <<5, 0, 4>>>>],
     ann |-> [weights |-> <<1, 0, 0, 1>>, bias |-> 0, table |-> PDTable]]

FitResults == {FitResultA, FitResultB}

\* the parameter map of a record: its feature values keyed by column name
ParamsOf(r) == [c \in Range(FIT_COLS) |-> r[c]]

\* a parameter map that was built without the key f
Without(p, f) == [c \in DOMAIN p \ {f} |-> p[c]]

\* the keys simulate_business reads by name as well as by position
MissingFields == {"OD_Utilization", "CashRatio"}

\* the maps simulate_business is called with: the What-If page's complete
\* map for a record, or a caller's map for the first record short of a key
SimParams(d) ==
    {ParamsOf(d[k]) : k \in 1..Len(d)}
        \cup {Without(ParamsOf(d[1]), f) : f \in MissingFields}

----------------------------------------------------------------------------
(* The scoring specification: the pipeline's scoring steps after a fit,    *)
(* then the dashboard's calls against the same artifact set.  The pipeline *)
(* and the dashboard are separate processes that share only the artifacts, *)
(* so the dashboard's calls are taken after the pipeline's steps.          *)

ScoreInit ==
    /\ \/ /\ models \in FitResults
          /\ feature_cols \in {FIT_COLS, SWAPPED_COLS}
          /\ validates \in BOOLEAN
       \/ /\ models = FitResultA
          /\ feature_cols = ABSENT_COLS
          /\ validates = FALSE
    /\ raw \in ScoreFrames
    /\ df = raw
    /\ stage = "engineered"
    /\ X_scaled = <<>>
    /\ X_pca = <<>>
    /\ cluster_labels = <<>>
    /\ pd_predictions = <<>>
    /\ batchOuts = <<>>
    /\ simOuts = <<>>
    /\ summary = <<>>
    /\ sector_report = <<>>
    /\ executed = <<"engineer_features">>
    /\ sliders = <<>>
    /\ params \in {<<p>> : p \in SimParams(raw)}
    /\ labels = <<>>
    /\ FitIdle

\* predictions returned in the order of the shuffled split, not of X
train_ann_predictions_split(m, Xp, cl) ==
    [i \in 1..Len(Xp) |->
        ann_predict_proba(m.ann, Append(Xp[Len(Xp) + 1 - i],
                                        cl[Len(Xp) + 1 - i]))]

\* src/src/ann_risk_model.py:97,122  X = np.column_stack([X_pca,
\* cluster_labels]); pd_predictions = model.predict_proba(X)[:, 1], on the
\* full X, training and test rows in X's own order
train_ann_predictions(m, Xp, cl) ==
    [i \in 1..Len(Xp) |-> ann_predict_proba(m.ann, Append(Xp[i], cl[i]))]

\* src/src/pipeline.py:64-65  X_scaled, scaler = scale_features(df, cols)
FitScaler ==
    /\ stage = "engineered"
    /\ X_scaled' = [i \in 1..Len(df) |->
                       scaler_transform(models.scaler,
                                        select_features(df[i], FIT_COLS))]
    /\ stage' = "scaled"
    /\ executed' = Append(executed, "scale_features")
    /\ UNCHANGED <<fitVars, X_pca, cluster_labels, df, sliders, params, labels, models, feature_cols,
                   validates, raw, pd_predictions, batchOuts, simOuts, summary,
                   sector_report>>

\* a projector fit that may run again after it has returned
FitPca_again ==
    /\ stage \in {"scaled", "projected"}
    /\ X_pca' = [i \in 1..Len(X_scaled) |->
                    pca_transform(models.pca, X_scaled[i])]
    /\ stage' = "projected"
    /\ executed' = Append(executed, "apply_pca")
    /\ UNCHANGED <<fitVars, X_scaled, cluster_labels, df, sliders, params, labels, models, feature_cols,
                   validates, raw, pd_predictions, batchOuts, simOuts, summary,
                   sector_report>>

\* src/src/pipeline.py:70  X_pca, pca = apply_pca(X_scaled)
FitPca ==
    /\ stage = "scaled"
    /\ X_pca' = [i \in 1..Len(X_scaled) |->
                    pca_transform(models.pca, X_scaled[i])]
    /\ stage' = "projected"
    /\ executed' = Append(executed, "apply_pca")
    /\ UNCHANGED <<fitVars, X_scaled, cluster_labels, df, sliders, params, labels, models, feature_cols,
                   validates, raw, pd_predictions, batchOuts, simOuts, summary,
                   sector_report>>

\* src/src/pipeline.py:75-79  cluster_labels, kmeans = apply_clustering(X_pca)
\* and the frame's two cluster columns
FitKmeans ==
    /\ stage = "projected"
    /\ cluster_labels' = [i \in 1..Len(X_pca) |->
                             kmeans_predict(models.kmeans, X_pca[i])]
    /\ df' = [i \in 1..Len(df) |->
                 SetCols(df[i],
                     [Cluster |-> cluster_labels'[i],
                      Cluster_Name |->
                          series_map(cluster_labels'[i], CLUSTER_LABELS)])]
    /\ stage' = "clustered"
    /\ executed' = Append(executed, "apply_clustering")
    /\ UNCHANGED <<fitVars, X_scaled, X_pca, sliders, params, labels, models, feature_cols,
                   validates, raw, pd_predictions, batchOuts, simOuts, summary,
                   sector_report>>

\* src/src/pipeline.py:84 with src/src/ann_risk_model.py:97-122: train_ann
\* makes the proxy labels, fits, and predicts on the full data
FitAnn ==
    /\ stage = "clustered"
    /\ pd_predictions' = train_ann_predictions(models, X_pca, cluster_labels)
    /\ labels' = create_risk_label(df)
    /\ stage' = "trained"
    /\ executed' = Append(executed, "train_ann")
    /\ UNCHANGED <<fitVars, matrixVars, df, sliders, params, models, feature_cols,
                   validates, raw, batchOuts, simOuts, summary, sector_report>>

\* src/src/pipeline.py:89
ComputeOdScore ==
    /\ stage = "trained"
    /\ df' = compute_od_score(df, pd_predictions)
    /\ stage' = "scored"
    /\ executed' = Append(executed, "compute_od_score")
    /\ UNCHANGED <<fitVars, matrixVars, sliders, params, labels, models, feature_cols,
                   validates, raw, pd_predictions, batchOuts, simOuts, summary,
                   sector_report>>

\* src/src/pipeline.py:94
ApplyInterestStrategy ==
    /\ stage = "scored"
    /\ df' = apply_interest_strategy(df)
    /\ stage' = "flagged"
    /\ executed' = Append(executed, "apply_interest_strategy")
    /\ UNCHANGED <<fitVars, matrixVars, sliders, params, labels, models, feature_cols,
                   validates, raw, pd_predictions, batchOuts, simOuts, summary,
                   sector_report>>

\* src/src/pipeline.py:99  the last step of the pipeline
AnalyzeSectors ==
    /\ stage = "flagged"
    /\ sector_report = <<>>
    /\ \E report \in analyze_sectors(df) : sector_report' = <<report>>
    /\ executed' = Append(executed, "analyze_sectors")
    /\ UNCHANGED <<fitVars, matrixVars, df, stage, sliders, params, labels, models,
                   feature_cols, validates, raw, pd_predictions, batchOuts,
                   simOuts, summary>>

\* a dashboard page: df = compute_risk_scores(load_raw_data(), models,
\* feature_cols); raw is the caller's frame as the call leaves it
ComputeRiskScores ==
    /\ stage = "flagged"
    /\ sector_report # <<>>
    /\ Len(batchOuts) + Len(simOuts) < MaxCalls
    /\ LET out == compute_risk_scores(raw, models, feature_cols, validates)
       IN  /\ batchOuts' = Append(batchOuts, out)
           /\ raw' = caller_frame_after(raw, out)
    /\ UNCHANGED <<fitVars, matrixVars, df, stage, sliders, params, labels, models,
                   feature_cols, validates, pd_predictions, simOuts, summary,
                   sector_report, executed>>

\* the What-If page: result = simulate_business(params, models, feature_cols)
SimulateBusiness ==
    /\ stage = "flagged"
    /\ sector_report # <<>>
    /\ Len(batchOuts) + Len(simOuts) < MaxCalls
    /\ simOuts' = Append(simOuts,
                         simulate_business(params[1], models, feature_cols))
    /\ UNCHANGED <<fitVars, matrixVars, df, stage, sliders, params, labels, models, feature_cols,
                   validates, raw, pd_predictions, batchOuts, summary,
                   sector_report, executed>>

\* get_sector_summary(df) on the frame the last batch call returned
GetSectorSummary ==
    /\ stage = "flagged"
    /\ summary = <<>>
    /\ batchOuts # <<>>
    /\ batchOuts[Len(batchOuts)].ok
    /\ LET scored == batchOuts[Len(batchOuts)].df
       IN  \E q \in summary_orders(summary_flagged(scored)) :
               summary' = <<get_sector_summary(scored, q)>>
    /\ UNCHANGED <<fitVars, matrixVars, df, stage, sliders, params, labels, models, feature_cols,
                   validates, raw, pd_predictions, batchOuts, simOuts,
                   sector_report, executed>>

ScoreNext ==
    \/ FitScaler
    \/ FitPca
    \/ FitKmeans
    \/ FitAnn
    \/ ComputeOdScore
    \/ ApplyInterestStrategy
    \/ AnalyzeSectors
    \/ ComputeRiskScores
    \/ SimulateBusiness
    \/ GetSectorSummary

SpecScore == ScoreInit /\ [][ScoreNext]_vars

----------------------------------------------------------------------------
(* Properties of the scoring paths *)

\* the rows of the frame whose feature values are the simulated parameters
SimulatedRows == {k \in 1..Len(raw) : ParamsOf(raw[k]) = params[1]}

\* the features of FIT_COLS that a frame of the feature-engineering
\* specification holds, in FIT_COLS' order
C19_Features(r) == SelectSeq(FIT_COLS, LAMBDA c : c \in DOMAIN r)

\* C19: the cash-conversion-cycle value in a record's feature vector is
\* Inventory_Days + Receivable_Days - Payable_Days of the record, in the
\* frame the fit stages select their features from and in the What-If
\* page's parameter map.
C19_CccInVector ==
    /\ stage = "engineered" =>
          \A i \in 1..Len(df) :
              LET cols == C19_Features(df[i])
                  X == select_features(df[i], cols)
              IN  \A j \in 1..Len(cols) :
                      cols[j] \in {"Cash_Conversion_Cycle", "CCC_Calculated"}
                          => X[j] = df[i].Inventory_Days
                                      + df[i].Receivable_Days
                                      - df[i].Payable_Days
    /\ params # <<>> =>
          params[1].Cash_Conversion_Cycle
              = params[1].Inventory_Days + params[1].Receivable_Days
                  - params[1].Payable_Days

\* whether name is the configured label of the segment id c, c in [0, K)
C20_Labelled(c, name) ==
    /\ c \in 0..(KMEANS_K - 1)
    /\ c \in DOMAIN CLUSTER_LABELS
    /\ name = CLUSTER_LABELS[c]
    /\ name \in {"Stable", "Growing", "Liquidity Stressed", "High Risk"}

\* C20: every record scored by the fit stages, by compute_risk_scores and by
\* simulate_business has a Cluster in [0, K) and as Cluster_Name the
\* configured label of that Cluster, never a missing value; so the three
\* paths name a given Cluster alike.
C20_SegmentNames ==
    /\ stage \notin {"engineered", "scaled", "projected"} =>
          \A i \in 1..Len(df) : C20_Labelled(df[i].Cluster, df[i].Cluster_Name)
    /\ \A b \in 1..Len(batchOuts) :
          batchOuts[b].ok =>
              \A i \in 1..Len(batchOuts[b].df) :
                  C20_Labelled(batchOuts[b].df[i].Cluster,
                               batchOuts[b].df[i].Cluster_Name)
    /\ \A c \in 1..Len(simOuts) :
          simOuts[c].ok =>
              C20_Labelled(simOuts[c].Cluster, simOuts[c].Cluster_Name)

\* the three paths have each named segment 2, and a batch frame also holds
\* a record of another segment
C20_Witness ==
    /\ stage = "flagged"
    /\ \E i \in 1..Len(df) :
          df[i].Cluster = 2 /\ df[i].Cluster_Name = "Liquidity Stressed"
    /\ \E b \in 1..Len(batchOuts) :
          /\ batchOuts[b].ok
          /\ \E i, j \in 1..Len(batchOuts[b].df) :
                /\ batchOuts[b].df[i].Cluster = 2
                /\ batchOuts[b].df[i].Cluster_Name = "Liquidity Stressed"
                /\ batchOuts[b].df[j].Cluster # 2
    /\ \E c \in 1..Len(simOuts) :
          /\ simOuts[c].ok
          /\ simOuts[c].Cluster = 2
          /\ simOuts[c].Cluster_Name = "Liquidity Stressed"

\* whether the classifier input of the feature vector X is X's projection
\* followed by the segment id c, as wide as the classifier was fitted
C21_InputOf(X, c) ==
    LET A == ann_input(models, X)
        n == Len(models.pca.components)
    IN  /\ Len(A) = n + 1
        /\ Len(A) = Len(models.ann.weights)
        /\ SubSeq(A, 1, n) = chain_pca(models, X)
        /\ A[n + 1] = c

\* C21: for every record scored by train_ann, compute_risk_scores or
\* simulate_business the classifier input is the record's projected vector
\* followed by its segment id in the last column; its width is the number
\* of retained components plus one, the width the classifier was fitted
\* with.  Stated of the state train_ann leaves and of the call that
\* returned last, which every call is when it returns.
C21_ClassifierInput ==
    /\ stage = "trained" =>
          \A i \in 1..Len(df) :
              C21_InputOf(select_features(df[i], FIT_COLS), df[i].Cluster)
    /\ (batchOuts # <<>> /\ batchOuts[Len(batchOuts)].ok) =>
          \A i \in 1..Len(raw) :
              C21_InputOf(select_features(raw[i], feature_cols),
                          batchOuts[Len(batchOuts)].df[i].Cluster)
    /\ (simOuts # <<>> /\ simOuts[Len(simOuts)].ok) =>
          C21_InputOf(sim_X(params[1], feature_cols),
                      simOuts[Len(simOuts)].Cluster)

\* the three paths have scored records against a fit that retained three
\* components, one of them in a segment other than 0
C21_Witness ==
    /\ Len(models.pca.components) = 3
    /\ \E b \in 1..Len(batchOuts) :
          /\ batchOuts[b].ok
          /\ \E i \in 1..Len(raw) : batchOuts[b].df[i].Cluster # 0
    /\ \E c \in 1..Len(simOuts) : simOuts[c].ok

\* C23: in the strategy report every category's Count is the number of
\* scored records of the category, the Counts sum to the number of scored
\* records, and Interest_Reduction_Pct is 100 x eligible / Count, a value in
\* [0, 100] (held in hundredths of a percent).
C23_CountsAndPct ==
    \A t \in 1..Len(sector_report) :
        LET rows == sector_report[t]
            of(ty) == {i \in 1..Len(df) : df[i].Business_Type = ty}
            eligible(ty) == Cardinality({i \in of(ty) : df[i].Interest_Reduction})
        IN  /\ \A k \in 1..Len(rows) :
                  /\ rows[k].Count = Cardinality(of(rows[k].Business_Type))
                  /\ IsFinite(rows[k].Interest_Reduction_Pct)
                  /\ rows[k].Interest_Reduction_Pct >= 0
                  /\ rows[k].Interest_Reduction_Pct <= 10000
                  /\ rows[k].Count > 0 =>
                        rows[k].Interest_Reduction_Pct
                            = Round(FDiv(eligible(rows[k].Business_Type)
                                            * 1000000, rows[k].Count), 100)
                                 \div 100
            /\ SumSeq([k \in 1..Len(rows) |-> rows[k].Count]) = Len(df)

\* the order of the stages: feature engineering, standardizer, projector,
\* segmenter, classifier, OD scoring, eligibility, sector aggregation
C24_Order ==
    <<"engineer_features", "scale_features", "apply_pca", "apply_clustering",
      "train_ann", "compute_od_score", "apply_interest_strategy",
      "analyze_sectors">>

\* whether cluster and pd are what the four fitted stages give for the
\* feature vector X when they are applied standardizer first, then
\* projector, then segmenter, then classifier
C24_AppliedInOrder(X, cluster, pd) ==
    LET Z == scaler_transform(models.scaler, X)
        Y == pca_transform(models.pca, Z)
        c == kmeans_predict(models.kmeans, Y)
    IN  /\ cluster = c
        /\ pd = ann_predict_proba(models.ann, Append(Y, c))

\* C24: in a run_pipeline execution the stages return in the order feature
\* engineering, standardizer fit, projector fit, segmenter fit, classifier
\* fit, OD scoring, eligibility, sector aggregation, each once and each
\* after its predecessor; compute_risk_scores and simulate_business apply
\* the fitted stages in that order and fit or persist nothing.
C24_StageOrder ==
    /\ [][executed' = executed
            \/ (/\ Len(executed) < Len(C24_Order)
                /\ executed' = SubSeq(C24_Order, 1, Len(executed) + 1))]_vars
    /\ [][(batchOuts' # batchOuts \/ simOuts' # simOuts)
             => (/\ models' = models /\ files' = files
                 /\ executed' = executed)]_vars
    /\ []((batchOuts # <<>> /\ batchOuts[Len(batchOuts)].ok) =>
             \A i \in 1..Len(raw) :
                 C24_AppliedInOrder(select_features(raw[i], feature_cols),
                                    batchOuts[Len(batchOuts)].df[i].Cluster,
                                    batchOuts[Len(batchOuts)].df[i].PD))
    /\ []((simOuts # <<>> /\ simOuts[Len(simOuts)].ok) =>
             C24_AppliedInOrder(sim_X(params[1], feature_cols),
                                simOuts[Len(simOuts)].Cluster,
                                sim_pd_score(params[1], models, feature_cols)))

\* an execution has returned from all eight stages and both apply paths
\* have scored against its fit
C24_Witness ==
    /\ executed = C24_Order
    /\ sector_report # <<>>
    /\ \E b \in 1..Len(batchOuts) : batchOuts[b].ok
    /\ \E c \in 1..Len(simOuts) : simOuts[c].ok

\* C29: throughout run_pipeline row i of the scaled matrix, of the projected
\* matrix, of the cluster labels, of the proxy labels and of the PD
\* predictions belongs to record i of the DataFrame, there is exactly one of
\* each per record, and each record's Cluster, PD and ODScore are derived
\* from its own features.  Stated of the state each stage returns in and of
\* the finished pipeline.
C29_RowsAligned ==
    LET n == Len(df)
        X(i) == select_features(df[i], FIT_COLS)
        done == stage = "flagged" /\ batchOuts = <<>> /\ simOuts = <<>>
        scaled == Len(X_scaled) = n
                    /\ \A i \in 1..n :
                          X_scaled[i] = scaler_transform(models.scaler, X(i))
        projected == Len(X_pca) = n
                       /\ \A i \in 1..n : X_pca[i] = chain_pca(models, X(i))
        clustered == Len(cluster_labels) = n
                       /\ \A i \in 1..n :
                             /\ cluster_labels[i] = chain_cluster(models, X(i))
                             /\ df[i].Cluster = cluster_labels[i]
        trained == /\ Len(labels) = n
                   /\ Len(pd_predictions) = n
                   /\ \A i \in 1..n :
                         /\ labels[i] = create_risk_label(<<df[i]>>)[1]
                         /\ pd_predictions[i] = chain_pd(models, X(i))
        scored == \A i \in 1..n :
                     /\ df[i].PD = chain_pd(models, X(i))
                     /\ df[i].ODScore = (PDOne - df[i].PD) * df[i].CashRatio
    IN  /\ (stage = "scaled" \/ done) => scaled
        /\ (stage = "projected" \/ done) => projected
        /\ (stage = "clustered" \/ done) => clustered
        /\ (stage = "trained" \/ done) => trained
        /\ (stage = "scored" \/ done) => scored

\* the pipeline has finished on four records whose PDs differ from one
\* record to the next
C29_Witness ==
    /\ stage = "flagged"
    /\ batchOuts = <<>> /\ simOuts = <<>>
    /\ Len(df) = 4
    /\ \A i \in 1..3 : df[i].PD # df[i + 1].PD
    /\ \E i, j \in 1..4 : df[i].Cluster # df[j].Cluster
    /\ \E i, j \in 1..4 : labels[i] # labels[j]

\* the columns of a scored record that both aggregations read
C28_Scored(r) ==
    <<r.Business_ID, r.Business_Type, r.PD, r.OD_Utilization>>

\* the report and the summary held are of the same scored records
C28_SameRecords ==
    /\ sector_report # <<>>
    /\ summary # <<>>
    /\ Len(df) = Len(summary[1].flagged)
    /\ \A i \in 1..Len(df) :
          C28_Scored(df[i]) = C28_Scored(summary[1].flagged[i])

C26_FlagsMatchReturnedPD ==
    \A s \in 1..Len(simOuts) :
        simOuts[s].ok =>
            LET pd   == simOuts[s].PD
                util == Get(params[1], "OD_Utilization", 0)
            IN  /\ simOuts[s].Interest_Eligible
                      <=> (pd < 1500000 /\ util > 70)
                /\ simOuts[s].Risk_Level =
                      IF pd < 1000000 THEN "Low"
                      ELSE IF pd < 3000000 THEN "Medium" ELSE "High"

\* C25: a compute_risk_scores call that raises leaves the loaded artifacts,
\* the loader's cache and the frame it was given as they were, and the
\* calls that return a result return what they return when no call has
\* failed: the result of the function on their own inputs.
C25_FailedCallAborted ==
    /\ [][(/\ Len(batchOuts') = Len(batchOuts) + 1
            /\ ~batchOuts'[Len(batchOuts')].ok)
             => (/\ models' = models /\ cache' = cache
                 /\ raw' = raw /\ params' = params
                 /\ simOuts' = simOuts
                 /\ SubSeq(batchOuts', 1, Len(batchOuts)) = batchOuts)]_vars
    /\ []((\E b \in 1..Len(batchOuts) : ~batchOuts[b].ok) =>
             /\ \A i \in 1..Len(raw) :
                   DOMAIN raw[i] = DOMAIN BaseRow
             /\ (simOuts # <<>>) =>
                   simOuts[Len(simOuts)]
                       = simulate_business(params[1], models, feature_cols))

\* a batch call failed on a feature column its frame lacks, one had failed
\* before it, and a simulation has returned a result
C25_Witness ==
    /\ Len(batchOuts) = 2
    /\ \A b \in 1..Len(batchOuts) :
          ~batchOuts[b].ok /\ batchOuts[b].error = "KeyError"
    /\ Len(simOuts) = 1 /\ simOuts[1].ok

C15_MissingFieldRejected ==
    \A s \in 1..Len(simOuts) :
        (\E f \in Range(feature_cols) \cup {"CashRatio", "OD_Utilization"} :
             f \notin DOMAIN params[1])
            => ~simOuts[s].ok

\* C16: simulate_business gives the predicted PD exactly one Risk_Level: Low
\* when PD < 0.10, Medium when 0.10 <= PD < 0.30, High when PD >= 0.30; the
\* cuts are not the eligibility threshold 0.15, so a PD of 0.20 is Medium
\* and not eligible.
C16_RiskLevelBands ==
    \A s \in 1..Len(simOuts) :
        simOuts[s].ok =>
            LET pd == sim_pd_score(params[1], models, feature_cols)
                level == simOuts[s].Risk_Level
            IN  /\ 0 <= pd /\ pd <= PDOne
                /\ level \in {"Low", "Medium", "High"}
                /\ (level = "Low") <=> (10 * pd < PDOne)
                /\ (level = "Medium") <=>
                       (PDOne <= 10 * pd /\ 10 * pd < 3 * PDOne)
                /\ (level = "High") <=> (10 * pd >= 3 * PDOne)
                /\ (5 * pd = PDOne) =>
                       (level = "Medium" /\ ~simOuts[s].Interest_Eligible)

\* a record with utilization above 0.70 was simulated with a PD of 0.20
C16_Witness ==
    \E s \in 1..Len(simOuts) :
        /\ simOuts[s].ok
        /\ 5 * sim_pd_score(params[1], models, feature_cols) = PDOne
        /\ Get(params[1], "OD_Utilization", 0) = 75
        /\ simOuts[s].Risk_Level = "Medium"

\* whether the rows of a ranked report carry a bijection from the categories
\* of the frame d onto 1..n that is ascending in mean PD, each row holding
\* its own category's mean PD
C17_Ranked(rows, d) ==
    LET types == {d[i].Business_Type : i \in 1..Len(d)}
        of(t) == {i \in 1..Len(d) : d[i].Business_Type = t}
        pds(t) == [i \in 1..Len(d) |-> IF i \in of(t) THEN d[i].PD ELSE 0]
    IN  /\ {rows[k].Business_Type : k \in 1..Len(rows)} = types
        /\ Len(rows) = Cardinality(types)
        /\ {rows[k].Risk_Rank : k \in 1..Len(rows)} = 1..Len(rows)
        /\ \A a, b \in 1..Len(rows) :
              rows[a].Avg_PD < rows[b].Avg_PD
                  => rows[a].Risk_Rank < rows[b].Risk_Rank
        /\ \A k \in 1..Len(rows) :
              rows[k].Avg_PD
                  = FDiv(SumSeq(pds(rows[k].Business_Type)),
                         Cardinality(of(rows[k].Business_Type)))

\* C17: in the strategy report and in the dashboard's sector summary
\* Risk_Rank is a bijection from the categories onto 1..n, a category of
\* strictly lower mean PD has the lower rank, and after the cluster columns
\* are merged in every row still holds its own category's rank, mean PD and
\* cluster counts.
C17_RiskRank ==
    /\ \A t \in 1..Len(sector_report) :
          /\ C17_Ranked(sector_report[t], df)
          /\ \A k \in 1..Len(sector_report[t]), i \in 1..Len(df) :
                LET row == sector_report[t][k]
                    col == ClusterColumn[df[i].Cluster]
                IN  /\ col \in DOMAIN row
                    /\ row[col] = Cardinality({j \in 1..Len(df) :
                           /\ df[j].Business_Type = row.Business_Type
                           /\ df[j].Cluster = df[i].Cluster})
    /\ \A t \in 1..Len(summary) :
          C17_Ranked(summary[t].summary, summary[t].flagged)

\* a report of two categories in which the category that groupby puts second
\* has the strictly lower mean PD and rank 1, with its cluster counts
C17_Witness ==
    /\ sector_report # <<>>
    /\ Len(sector_report[1]) = 2
    /\ sector_report[1][1].Business_Type = "Tech"
    /\ sector_report[1][1].Risk_Rank = 1
    /\ sector_report[1][1].Avg_PD < sector_report[1][2].Avg_PD
    /\ \E c \in 0..3 :
          /\ ClusterColumn[c] \in DOMAIN sector_report[1][1]
          /\ sector_report[1][1][ClusterColumn[c]] > 0

\* C1: for one record and one loaded artifact set, the batch path
\* (compute_risk_scores on a frame holding the record) and the simulator path
\* (simulate_business on the record's values) give an identical ODScore and
\* an identical interest-eligibility value.
C1_BatchSimIdentical ==
    \A b \in 1..Len(batchOuts), s \in 1..Len(simOuts), k \in SimulatedRows :
        (batchOuts[b].ok /\ simOuts[s].ok) =>
            /\ batchOuts[b].df[k].ODScore = simOuts[s].ODScore
            /\ summary_interest_eligible(batchOuts[b].df[k])
                   = simOuts[s].Interest_Eligible

\* C4: a scoring call (compute_risk_scores or simulate_business) whose
\* feature list is a non-identity permutation of the list used at fit time
\* raises an error and returns no score.
C4_PermutedRaises ==
    feature_cols # models.scaler.feature_names_in =>
        /\ \A b \in 1..Len(batchOuts) : ~batchOuts[b].ok
        /\ \A s \in 1..Len(simOuts) : ~simOuts[s].ok

C6_ODScoreFormula ==
    /\ stage \in {"scored", "flagged"} =>
          \A i \in 1..Len(df) :
              /\ df[i].PD = pd_predictions[i]
              /\ df[i].CashRatio = raw[i].CashRatio
              /\ df[i].ODScore = (PDOne - df[i].PD) * df[i].CashRatio
    /\ \A b \in 1..Len(batchOuts) :
          batchOuts[b].ok =>
              /\ Len(batchOuts[b].df) = Len(raw)
              /\ \A i \in 1..Len(raw) :
                    LET r == batchOuts[b].df[i]
                    IN  /\ r.CashRatio = raw[i].CashRatio
                        /\ r.ODScore = (PDOne - r.PD) * r.CashRatio

\* both paths have scored a record of PD 0.20 and CashRatio 2.0 and store
\* ODScore 1.60 for it
C6_Witness ==
    /\ stage = "flagged"
    /\ \E i \in 1..Len(df) :
          /\ df[i].PD = 2000000 /\ df[i].CashRatio = 20
          /\ df[i].ODScore = 160000000
    /\ \E b \in 1..Len(batchOuts) :
          /\ batchOuts[b].ok
          /\ \E i \in 1..Len(raw) :
                /\ batchOuts[b].df[i].PD = 2000000
                /\ batchOuts[b].df[i].CashRatio = 20
                /\ batchOuts[b].df[i].ODScore = 160000000

\* eligibility as the claim states it: PD below 0.15 and utilization above
\* 0.70, both strictly
C7_Eligible(pd, util) == pd < 1500000 /\ util > 70

\* C7: on each of the three paths a record is flagged eligible for interest
\* reduction iff its PD < 0.15 and its OD utilization > 0.70, both strict.
\* The PD is the one the path holds when it sets the flag: the PD column in
\* apply_interest_strategy and get_sector_summary, the predicted pd_score in
\* simulate_business.
C7_StrictEligibility ==
    /\ stage = "flagged" =>
          \A i \in 1..Len(df) :
              df[i].Interest_Reduction
                  <=> C7_Eligible(df[i].PD, df[i].OD_Utilization)
    /\ \A s \in 1..Len(simOuts) :
          (simOuts[s].ok /\ "OD_Utilization" \in DOMAIN params[1]) =>
              (simOuts[s].Interest_Eligible
                  <=> C7_Eligible(sim_pd_score(params[1], models, feature_cols),
                                  params[1].OD_Utilization))
    /\ \A t \in 1..Len(summary) :
          /\ \A i \in 1..Len(summary[t].flagged) :
                LET r == summary[t].flagged[i]
                IN  r.Interest_Eligible <=> C7_Eligible(r.PD, r.OD_Utilization)
          /\ \A g \in 1..Len(summary[t].summary) :
                LET row == summary[t].summary[g]
                IN  row.Interest_Eligible_Count =
                        Cardinality({i \in 1..Len(summary[t].flagged) :
                            LET r == summary[t].flagged[i]
                            IN  /\ r.Business_Type = row.Business_Type
                                /\ C7_Eligible(r.PD, r.OD_Utilization)})

\* the pipeline has flagged a frame holding PD 0.10 at utilization 0.75
\* (eligible), PD 0.10 at 0.50, PD exactly 0.15 at 0.75 and PD 0.10 at exactly
\* 0.70 (none eligible); the simulator has flagged the first of them eligible
\* and the sector summary has flagged the same frame
C7_Witness ==
    /\ stage = "flagged"
    /\ \E i, j, k, l \in 1..Len(df) :
          /\ df[i].PD = 1000000 /\ df[i].OD_Utilization = 75
          /\ df[i].Interest_Reduction
          /\ df[j].PD = 1000000 /\ df[j].OD_Utilization = 50
          /\ ~df[j].Interest_Reduction
          /\ df[k].PD = 1500000 /\ df[k].OD_Utilization = 75
          /\ ~df[k].Interest_Reduction
          /\ df[l].PD = 1000000 /\ df[l].OD_Utilization = 70
          /\ ~df[l].Interest_Reduction
    /\ \E s \in 1..Len(simOuts) :
          /\ simOuts[s].ok /\ simOuts[s].Interest_Eligible
          /\ simOuts[s].PD = 1000000 /\ params[1].OD_Utilization = 75
    /\ \E t \in 1..Len(summary) :
          \E i, k \in 1..Len(summary[t].flagged) :
              /\ summary[t].flagged[i].Interest_Eligible
              /\ summary[t].flagged[k].PD = 1500000
              /\ summary[t].flagged[k].OD_Utilization = 75
              /\ ~summary[t].flagged[k].Interest_Eligible

----------------------------------------------------------------------------
(* The artifact files: run_pipeline executions that write them             *)
(* (src/main.py, src/src/pipeline.py) and the dashboard process that loads *)
(* them (credit_intelligence_dashboard/src/model_loader.py).               *)
(*                                                                         *)
(* The dashboard reads the four files from its own models directory, which *)
(* nothing in the repository writes.  The model takes the deployment in    *)
(* which that directory is the pipeline's MODELS_DIR, so that the files a  *)
(* run writes are the files the dashboard loads.  Executions are started   *)
(* one after another; the dashboard process runs beside them.              *)

\* joblib.dump(obj, path) by process p: the file now holds the object of p's
\* execution
Dump(p, f, obj) == [files EXCEPT ![f] = [run |-> rid[p], obj |-> obj]]

\* main.py:24 with pipeline.py:48-58: process p starts an execution; its
\* data decides what its stages will fit
StartRun(p) ==
    /\ step[p] \in {"idle", "done", "failed"}
    /\ run < MaxRuns
    /\ run' = run + 1
    /\ rid' = [rid EXCEPT ![p] = run + 1]
    /\ \E fit \in FitResults : fitted' = [fitted EXCEPT ![p] = fit]
    /\ started' = [started EXCEPT ![p] = files]
    /\ outcomes' = Append(outcomes, [status |-> "running"])
    /\ step' = [step EXCEPT ![p] = "scale"]
    /\ UNCHANGED <<files, lpc, cache, deserialized, loadError, loadedSets,
                   scoringVars>>

\* pipeline.py:65 with scaling.py:34-38
ScaleFeatures(p) ==
    /\ step[p] = "scale"
    /\ files' = Dump(p, "scaler", fitted[p].scaler)
    /\ step' = [step EXCEPT ![p] = "pca"]
    /\ UNCHANGED <<run, rid, fitted, started, outcomes, lpc, cache, deserialized,
                   loadError,
                   loadedSets, scoringVars>>

\* pipeline.py:70 with pca_module.py:32-42
ApplyPca(p) ==
    /\ step[p] = "pca"
    /\ files' = Dump(p, "pca", fitted[p].pca)
    /\ step' = [step EXCEPT ![p] = "kmeans"]
    /\ UNCHANGED <<run, rid, fitted, started, outcomes, lpc, cache, deserialized,
                   loadError,
                   loadedSets, scoringVars>>

\* pipeline.py:75 with clustering.py:33-44
ApplyClustering(p) ==
    /\ step[p] = "kmeans"
    /\ files' = Dump(p, "kmeans", fitted[p].kmeans)
    /\ step' = [step EXCEPT ![p] = "ann"]
    /\ UNCHANGED <<run, rid, fitted, started, outcomes, lpc, cache, deserialized,
                   loadError,
                   loadedSets, scoringVars>>

\* pipeline.py:84 with ann_risk_model.py:97-117
TrainAnn(p) ==
    /\ step[p] = "ann"
    /\ files' = Dump(p, "ann", fitted[p].ann)
    /\ step' = [step EXCEPT ![p] = "report"]
    /\ UNCHANGED <<run, rid, fitted, started, outcomes, lpc, cache, deserialized,
                   loadError,
                   loadedSets, scoringVars>>

\* evaluation.py:61-67  the keys of the metrics evaluate_model returns
METRIC_KEYS ==
    {"auc", "accuracy", "false_negative_rate", "confusion_matrix",
     "classification_report"}

\* pipeline.py:124-129  the keys of the results run_pipeline returns
RESULT_KEYS == {"dataframe", "sector_report", "metrics", "model"}

\* pipeline.py:113-122  what the final summary prints a line for
SUMMARY_LINES ==
    {"Total businesses processed", "Business types analyzed",
     "AUC-ROC Score", "False Negative Rate", "Interest reduction eligible"}

\* ann_risk_model.py:122 and pipeline.py:89-129, then main.py:25-26: the
\* process ends normally, with exit status 0
FinishRun(p) ==
    /\ step[p] = "report"
    /\ step' = [step EXCEPT ![p] = "done"]
    /\ outcomes' = [outcomes EXCEPT ![rid[p]] =
                        [status |-> "ok", exit |-> 0, at |-> "none",
                         message |-> "System executed successfully",
                         results |-> RESULT_KEYS, metrics |-> METRIC_KEYS,
                         printed |-> SUMMARY_LINES]]
    /\ UNCHANGED <<run, rid, fitted, files, started, lpc, cache, deserialized,
                   loadError,
                   loadedSets, scoringVars>>

\* the functions run_pipeline calls in each step of an execution in which
\* a failure is modelled (pipeline.py:65-109); of the functions after
\* train_ann these are the first and the last
StageFunctions ==
    [scale |-> {"scale_features"},
     pca |-> {"apply_pca"},
     kmeans |-> {"apply_clustering"},
     ann |-> {"train_ann"},
     report |-> {"compute_od_score", "generate_all_visualizations"}]

\* the order of the steps in run_pipeline
StageOrder == <<"scale", "pca", "kmeans", "ann", "report">>

\* the step whose function writes the artifact file f
WritingStage ==
    [f \in ArtifactNames |->
        CASE f = "scaler" -> "scale" [] f = "pca" -> "pca"
          [] f = "kmeans" -> "kmeans" [] f = "ann" -> "ann"]

\* a failure report without a traceback
print_exc_none(fn) == <<>>

\* main.py:29-30  traceback.print_exc(): the frames of the exception raised
\* in fn, outermost first
print_exc(fn) == <<"main", "run_pipeline", fn>>

\* the current step raises before it writes anything (a fit that rejects
\* its input, train_test_split refusing a class of one member at
\* ann_risk_model.py:105, a later step failing); run_pipeline catches
\* nothing, main.py:27-31 prints the exception's text and the traceback,
\* whose frames name the function that raised, and exits with status 1
FailRun(p) ==
    /\ step[p] \in {"scale", "pca", "kmeans", "ann", "report"}
    /\ step' = [step EXCEPT ![p] = "failed"]
    /\ \E fn \in StageFunctions[step[p]] :
          outcomes' = [outcomes EXCEPT ![rid[p]] =
                          [status |-> "failed", exit |-> 1, at |-> step[p],
                           message |-> "Pipeline failed with error",
                           traceback |-> print_exc(fn)]]
    /\ UNCHANGED <<run, rid, fitted, files, started, lpc, cache, deserialized,
                   loadError,
                   loadedSets, scoringVars>>

\* the order in which load_all_models calls the four loaders
\* (model_loader.py:39-44)
LoadOrder == <<"scaler", "pca", "kmeans", "ann">>

\* a page calls load_all_models() (model_loader.py:37)
LoadAllModels ==
    /\ lpc = "idle"
    /\ Len(loadedSets) < MaxCalls
    /\ lpc' = LoadOrder[1]
    /\ loadError' = FALSE
    /\ UNCHANGED <<run, rid, step, fitted, files, started, outcomes, cache,
                   deserialized, loadedSets, scoringVars>>

\* a loader that runs its body at every call
cache_miss_always(f) == FALSE

\* @st.cache_resource (model_loader.py:13, 19, 25, 31): whether the
\* process already holds the loader's value
cache_hit(f) == cache[f] # NoFile

\* one cached loader, model_loader.py:13-34: a held value is returned as
\* it is; otherwise joblib.load reads the file, which raises when the file
\* does not exist, and the value read is kept.  After the last loader the
\* dict is returned.
LoadArtifact(i) ==
    LET f == LoadOrder[i]
        got == IF cache_hit(f) THEN cache[f] ELSE files[f]
    IN  /\ lpc = f
        /\ IF got = NoFile
           THEN /\ loadError' = TRUE
                /\ lpc' = "idle"
                /\ UNCHANGED <<cache, deserialized, loadedSets>>
           ELSE /\ cache' = [cache EXCEPT ![f] = got]
                /\ deserialized' =
                       IF cache_hit(f) THEN deserialized
                       ELSE [deserialized EXCEPT ![f] = @ + 1]
                /\ IF i < Len(LoadOrder)
                   THEN /\ lpc' = LoadOrder[i + 1]
                        /\ UNCHANGED loadedSets
                   ELSE /\ lpc' = "idle"
                        /\ loadedSets' = Append(loadedSets, cache')
                /\ UNCHANGED loadError
        /\ UNCHANGED <<run, rid, step, fitted, files, started, outcomes,
                       scoringVars>>

FitInit ==
    /\ FitIdle
    /\ ScoreIdle
    /\ df = <<>>
    /\ stage = "idle"
    /\ sliders = <<>>
    /\ params = <<>>
    /\ labels = <<>>

\* one process runs main.py again and again; the dashboard loads beside it
FitNext ==
    \/ StartRun(1)
    \/ ScaleFeatures(1)
    \/ ApplyPca(1)
    \/ ApplyClustering(1)
    \/ TrainAnn(1)
    \/ FinishRun(1)
    \/ FailRun(1)
    \/ LoadAllModels
    \/ \E i \in 1..Len(LoadOrder) : LoadArtifact(i)

SpecFit == FitInit /\ [][FitNext]_vars

\* C2: when an execution of run_pipeline fails at any step, every artifact
\* file that an earlier successful execution persisted still holds exactly
\* the contents it had before the failed execution started.
C2_FailedRunLeavesArtifacts ==
    step[1] = "failed" =>
        \A f \in ArtifactNames :
            (/\ started[1][f] # NoFile
             /\ outcomes[started[1][f].run].status = "ok")
                => files[f] = started[1][f]

\* an artifact set all of whose members one execution wrote and whose
\* widths agree along the apply chain
Coherent(m) ==
    /\ \A f, g \in ArtifactNames : m[f].run = m[g].run
    /\ Len(m.pca.obj.components) + 1 = Len(m.ann.obj.weights)

\* C3: what load_all_models returns is four artifacts of one and the same
\* fit run with agreeing cardinalities (projector output width = classifier
\* input width minus one); otherwise the call fails with an error.  This
\* holds however the four loads interleave with an execution that is
\* rewriting the files.
C3_LoadCoherent ==
    \A i \in 1..Len(loadedSets) : Coherent(loadedSets[i])

----------------------------------------------------------------------------
(* Several processes running main.py at once.  Nothing in main.py or in    *)
(* run_pipeline takes a lock or looks for another execution, so a process  *)
(* may start an execution whenever the operator launches it.               *)

OverlapNext ==
    \E p \in Procs :
        \/ StartRun(p)
        \/ ScaleFeatures(p)
        \/ ApplyPca(p)
        \/ ApplyClustering(p)
        \/ TrainAnn(p)
        \/ FinishRun(p)
        \/ FailRun(p)

SpecOverlap == FitInit /\ [][OverlapNext]_vars

\* process p's execution has made its first artifact write and not yet its
\* last
BetweenWrites(p) == step[p] \in {"pca", "kmeans", "ann"}

\* C11: two run_pipeline executions on the same artifact paths never
\* overlap: no execution writes an artifact while another is between its
\* first and its last artifact write (so at no time are two executions both
\* between their first and last write), and the four files never hold
\* artifacts written by two different executions.
C11_FitsNeverOverlap ==
    /\ \A p, q \in Procs : p # q => ~(BetweenWrites(p) /\ BetweenWrites(q))
    /\ \A f, g \in ArtifactNames :
          (files[f] # NoFile /\ files[g] # NoFile)
              => files[f].run = files[g].run

\* C12: once a fit has persisted an artifact, the file's contents never
\* change: no later step of any execution overwrites an artifact file that
\* exists.
C12_PersistedNeverChanges ==
    [][\A f \in ArtifactNames : files[f] # NoFile => files'[f] = files[f]]_vars

\* the position of step st in run_pipeline
C18_Pos(st) == CHOOSE k \in 1..Len(StageOrder) : StageOrder[k] = st

\* C18: when a step of run_pipeline raises, no later step of that execution
\* runs, the report names the function of the step that failed and the
\* process exits with a non-zero status; an execution whose steps all
\* complete exits with status 0.
C18_FailureReported ==
    /\ [](\A r \in 1..Len(outcomes) :
             /\ outcomes[r].status = "failed" =>
                   /\ outcomes[r].exit # 0
                   /\ \E k \in 1..Len(outcomes[r].traceback) :
                         outcomes[r].traceback[k]
                             \in StageFunctions[outcomes[r].at]
                   /\ \A f \in ArtifactNames :
                         files[f].run = r =>
                             C18_Pos(WritingStage[f]) < C18_Pos(outcomes[r].at)
             /\ outcomes[r].status = "ok" => outcomes[r].exit = 0)
    /\ [][\A r \in 1..Len(outcomes) :
             /\ (outcomes[r].status = "failed")
                    => (\A f \in ArtifactNames :
                          files'[f].run = r => files'[f] = files[f])
             /\ (outcomes[r].status = "running"
                    /\ outcomes'[r].status = "ok")
                    => (\A f \in ArtifactNames : files[f].run = r)]_vars

\* an execution failed in train_ann after writing three files, and an
\* execution before it ended with status 0
C18_Witness ==
    \E r, q \in 1..Len(outcomes) :
        /\ outcomes[r].status = "failed" /\ outcomes[r].at = "ann"
        /\ outcomes[r].exit = 1
        /\ Cardinality({f \in ArtifactNames : files[f].run = r}) = 3
        /\ outcomes[q].status = "ok" /\ outcomes[q].exit = 0

\* the names under which a validation loss or a stopping condition would
\* be reported
C22_Names ==
    {"validation_loss", "final_validation_loss", "val_loss", "converged",
     "stop_condition", "stopping_condition", "n_iter",
     "max_iterations_reached", "Validation loss", "Converged"}

\* C22: what a completed execution reports records the classifier's final
\* validation loss and whether its training converged or reached the
\* iteration limit.
C22_ConvergenceRecorded ==
    \A r \in 1..Len(outcomes) :
        outcomes[r].status = "ok" =>
            (outcomes[r].results \cup outcomes[r].metrics
                 \cup outcomes[r].printed) \cap C22_Names # {}

\* C13: in one dashboard process, over any sequence of load_all_models
\* calls, joblib.load reads each of the four artifacts at most once, and
\* every call that returns returns the same four objects as the first.
C13_LoadedOnce ==
    /\ \A f \in ArtifactNames : deserialized[f] <= 1
    /\ \A i \in 1..Len(loadedSets) : loadedSets[i] = loadedSets[1]

\* load_all_models has returned twice, the second time after a later
\* execution rewrote a file, and each artifact has been read once
C13_Witness ==
    /\ Len(loadedSets) >= 2
    /\ \E f \in ArtifactNames : files[f] # cache[f]
    /\ \A f \in ArtifactNames : deserialized[f] = 1

====
